---- MODULE Spec2Model ----
(***************************************************************************)
(* Model of the in-memory ledger of banking-system-mock: the BankingService *)
(* class with its account map, its global transaction log and its lock set. *)
(*                                                                          *)
(* Scheduling.  The specification of the ledger speaks of concurrent        *)
(* callers, and the lock set of the service only matters when a call can    *)
(* find another call in flight.  Spec therefore runs each call as a         *)
(* process that executes the statements of its method one at a time, any    *)
(* other caller's statements in between.  acquireLock and releaseLock are   *)
(* one step each.  The read methods take no lock and are one step each.     *)
(* ReadSpec adds callers of the read methods to Spec, FairSpec lets every   *)
(* caller go on executing the call it is in, and TransferFairSpec is        *)
(* FairSpec with callers that issue transfers only.                         *)
(*                                                                          *)
(* ServiceSpec and ApiSpec describe the program as it is deployed: one      *)
(* caller at a time, each call or request running from its first statement  *)
(* to its last before the next begins.  In ServiceSpec the caller calls the *)
(* methods of the service, and the clock moves; in ApiSpec it sends         *)
(* requests to the routes, which validate them and call the service.  The   *)
(* accounts of Spec carry no name: the name plays no part in the methods    *)
(* Spec runs.                                                               *)
(*                                                                          *)
(* Account ids are the numbers 1..NumIds; their numeric order stands for    *)
(* the order Array.prototype.sort gives the id strings.  0 is an absent     *)
(* optional field of a log entry.                                           *)
(***************************************************************************)
EXTENDS Integers, Sequences, FiniteSets, TLC

\* ---- bounds of the model ----
NumIds == 2       \* account ids a call can name
MaxAmount == 1    \* largest amount of a call
MaxTime == 2      \* ticks the clock makes
MaxLog == 2       \* entries a lone caller puts in the log

Ids == 1..NumIds
Procs == {"c1", "c2"}          \* two concurrent callers
Amounts == 0..MaxAmount        \* 0 is the amount the methods reject
InitBalances == {-1, 0, 1}     \* -1 is the balance createAccount rejects
None == 0

VARIABLES
  accounts,   \* the keys of BankingService.accounts
  balance,    \* balance[id]: Account.balance of the account with that key
  initial,    \* initial[id]: the balance createAccount was called with
  log,        \* BankingService.transactions
  locks,      \* BankingService.locks
  pc,         \* pc[p]: the statement caller p is about to execute
  call,       \* call[p]: the method and the arguments of p's current call
  result,     \* result[p]: the outcome of p's current (or last) call
  appended,   \* appended[p]: p's current (or last) call has pushed its entry
  pre,        \* pre[p]: the balances a transfer read at lines 99-100
  nSucc,      \* number of calls that have returned a log entry
  view,       \* what the last getAllAccounts / getAccount reader saw
  names,      \* names[id]: Account.name of the account with that key
  now,        \* the instant `new Date()` gives, in ticks
  utcOffset,  \* local time minus UTC, in ticks, at that instant
  outcome,    \* the last call a lone caller made, and what it got back
  request,    \* the last HTTP request the routes received
  response,   \* the last HTTP response of the routes
  v1          \* the BankingService of services/BankingService.ts: its
              \* accounts, their balances and transactions, its last outcome

\* the part of the state only the callers that run alone write
apiVars == <<names, now, utcOffset, outcome, request, response, v1>>

vars == <<accounts, balance, initial, log, locks, pc, call, result,
          appended, pre, nSucc, view, apiVars>>

NoCall == [op |-> "none", fromId |-> None, toId |-> None, amount |-> 0]
NoView == [seen |-> FALSE, half |-> FALSE]
NoName == ""                   \* the empty name, which POST /accounts rejects
Names == {"a", "b"}            \* the names a request can carry
SummerOffset == 2              \* local time minus UTC while summer time lasts
NoOutcome ==
  [op |-> "none", result |-> "none", value |-> "none", id |-> None,
   arg |-> 0, name |-> NoName]
NoRequest ==
  [route |-> "none", id |-> None, toId |-> None, amount |-> 0,
   name |-> NoName, extra |-> FALSE, auth |-> "none", early |-> "none"]
\* the Authorization header of a request: absent, not starting with
\* 'Bearer ', a token that jwt.verify rejects, a token it accepts
Auths == {"noHeader", "notBearer", "badToken", "valid"}
\* what stops a request in front of the JWT middleware: nothing, a body that
\* express.json() cannot parse, the 101st request of the minute
Earlies == {"none", "badBody", "limited"}
NoResponse == [status |-> 0, success |-> FALSE, error |-> "none"]
\* `new BankingService()` of services/BankingService.ts: an empty accounts map
v1Init ==
  [accounts |-> {}, balance |-> [i \in Ids |-> 0],
   transactions |-> [i \in Ids |-> <<>>], result |-> "none"]

\* ---- pure helpers ----

RECURSIVE SumOver(_, _)
SumOver(f, S) ==
  IF S = {} THEN 0
  ELSE LET x == CHOOSE y \in S : TRUE IN f[x] + SumOver(f, S \ {x})

RECURSIVE SumLog(_, _)
SumLog(l, type) ==
  IF l = <<>> THEN 0
  ELSE (IF Head(l).type = type THEN Head(l).amount ELSE 0)
       + SumLog(Tail(l), type)

\* acquireLock's test: the id is not in the lock set
acquireLockOk_nocheck(id) == TRUE
acquireLockOk_global(id) == locks = {}
acquireLockOk(id) == id \notin locks

\* [fromId, toId].sort(): the pair <<first, second>>
sortIds_unsorted(fromId, toId) == <<fromId, toId>>
sortIds_descending(fromId, toId) ==
  IF fromId <= toId THEN <<toId, fromId>> ELSE <<fromId, toId>>
sortIds(fromId, toId) ==
  IF fromId <= toId THEN <<fromId, toId>> ELSE <<toId, fromId>>

\* amount <= 0 throws
amountPositive_any(amount) == TRUE
amountPositive(amount) == amount > 0

\* account.balance < amount throws 'Insufficient funds'
sufficientFunds_nocheck(bal, amount) == TRUE
sufficientFunds(bal, amount) == ~(bal < amount)

\* account.balance += amount, to.balance += amount
credit_lost(bal, amount) == bal
credit(bal, amount) == bal + amount

\* account.balance -= amount, from.balance -= amount
debit_lost(bal, amount) == bal
debit(bal, amount) == bal - amount

depositLog_bothSides(id, amount) ==
  [type |-> "deposit", fromAccountId |-> id, toAccountId |-> id,
   amount |-> amount]
depositLog(id, amount) ==
  [type |-> "deposit", fromAccountId |-> None, toAccountId |-> id,
   amount |-> amount]
withdrawLog(id, amount) ==
  [type |-> "withdraw", fromAccountId |-> id, toAccountId |-> None,
   amount |-> amount]
\* a transfer entry that names the source only
transferLog_oneSided(fromId, toId, amount) ==
  [type |-> "transfer", fromAccountId |-> fromId, toAccountId |-> None,
   amount |-> amount]
transferLog(fromId, toId, amount) ==
  [type |-> "transfer", fromAccountId |-> fromId, toAccountId |-> toId,
   amount |-> amount]

\* ---- the state after construction ----

Init ==
  /\ accounts = {}
  /\ balance = [i \in Ids |-> 0]
  /\ initial = [i \in Ids |-> 0]
  /\ log = <<>>
  /\ locks = {}
  /\ pc = [p \in Procs |-> "idle"]
  /\ call = [p \in Procs |-> NoCall]
  /\ result = [p \in Procs |-> "none"]
  /\ appended = [p \in Procs |-> FALSE]
  /\ pre = [p \in Procs |-> <<0, 0>>]
  /\ nSucc = 0
  /\ view = NoView
  /\ names = [i \in Ids |-> NoName]
  /\ now = 0
  /\ utcOffset = SummerOffset
  /\ outcome = NoOutcome
  /\ request = NoRequest
  /\ response = NoResponse
  /\ v1 = v1Init

\* ---- createAccount ----

createAccount(id, bal) ==
  /\ id \notin accounts                  \* uuidv4() is a fresh id
  /\ IF bal < 0
       THEN UNCHANGED <<accounts, balance, initial>>
       ELSE /\ accounts' = accounts \cup {id}
            /\ balance' = [balance EXCEPT ![id] = bal]
            /\ initial' = [initial EXCEPT ![id] = bal]
  /\ UNCHANGED <<log, locks, pc, call, result, appended, pre, nSucc, view,
                 apiVars>>


\* ---- a caller invokes deposit, withdraw or transfer ----

\* The model issues calls while the log is empty; the calls then in flight,
\* one per caller, still run to their end.
Room == log = <<>>

Invoke(p, c, start) ==
  /\ pc[p] = "idle"
  /\ Room
  /\ pc' = [pc EXCEPT ![p] = start]
  /\ call' = [call EXCEPT ![p] = c]
  /\ UNCHANGED <<accounts, balance, initial, log, locks, result, appended,
                 pre, nSucc, view, apiVars>>

\* The caller has its result (the returned entry or the thrown error) and is
\* free to issue its next call.
Return(p) ==
  /\ pc[p] = "done"
  /\ pc' = [pc EXCEPT ![p] = "idle"]
  /\ call' = [call EXCEPT ![p] = NoCall]
  /\ result' = [result EXCEPT ![p] = "none"]
  /\ appended' = [appended EXCEPT ![p] = FALSE]
  /\ pre' = [pre EXCEPT ![p] = <<0, 0>>]
  /\ UNCHANGED <<accounts, balance, initial, log, locks, nSucc, view, apiVars>>

CallDeposit(p, id, amount) ==
  Invoke(p, [op |-> "deposit", fromId |-> None, toId |-> id,
             amount |-> amount], "d_acquire")

CallWithdraw(p, id, amount) ==
  Invoke(p, [op |-> "withdraw", fromId |-> id, toId |-> None,
             amount |-> amount], "w_acquire")

CallTransfer(p, fromId, toId, amount) ==
  Invoke(p, [op |-> "transfer", fromId |-> fromId, toId |-> toId,
             amount |-> amount], "t_acquire1")

\* ---- the ways a statement ends ----

\* The statement completes and control moves to the statement at `next`.
Goto(p, next) == pc' = [pc EXCEPT ![p] = next]

\* The statement throws (or returns) with outcome r; control moves to `next`,
\* the finally block.
Outcome(p, r, next) ==
  /\ result' = [result EXCEPT ![p] = r]
  /\ pc' = [pc EXCEPT ![p] = next]

\* The statement throws outside the try block: the call ends at once.
Throw(p, r) ==
  /\ result' = [result EXCEPT ![p] = r]
  /\ pc' = [pc EXCEPT ![p] = "done"]
  /\ UNCHANGED nSucc

\* The call leaves the method: a returned log entry is a success.
Leave(p) ==
  /\ pc' = [pc EXCEPT ![p] = "done"]
  /\ nSucc' = IF result[p] = "ok" THEN nSucc + 1 ELSE nSucc

\* ---- acquireLock / releaseLock ----

\* acquireLock that tests the lock set and does not add the id to it
acquireLock_noadd(p, id, at, next) ==
  /\ pc[p] = at
  /\ IF acquireLockOk(id)
       THEN /\ UNCHANGED locks
            /\ Goto(p, next)
            /\ UNCHANGED <<result, nSucc>>
       ELSE /\ UNCHANGED locks
            /\ Throw(p, "Busy")
  /\ UNCHANGED <<accounts, balance, initial, log, call, appended, pre, view, apiVars>>

\* acquireLock as if it were called inside the try block: the throw on a held
\* lock runs the finally block, which releases the lock of the holder
acquireLock_releasing(p, id, at, next) ==
  /\ pc[p] = at
  /\ IF acquireLockOk(id)
       THEN /\ locks' = locks \cup {id}
            /\ Goto(p, next)
            /\ UNCHANGED <<result, nSucc>>
       ELSE /\ locks' = locks \ {id}
            /\ Throw(p, "Busy")
  /\ UNCHANGED <<accounts, balance, initial, log, call, appended, pre, view, apiVars>>

\* acquireLock(id) as the statement of p at pc `at`, outside the try block:
\* a held lock throws 'Account is busy, try again' out of the method.
acquireLock(p, id, at, next) ==
  /\ pc[p] = at
  /\ IF acquireLockOk(id)
       THEN /\ locks' = locks \cup {id}
            /\ Goto(p, next)
            /\ UNCHANGED <<result, nSucc>>
       ELSE /\ UNCHANGED locks
            /\ Throw(p, "Busy")
  /\ UNCHANGED <<accounts, balance, initial, log, call, appended, pre, view, apiVars>>

\* releaseLock(id) in the finally block, as the statement of p at pc `at`.
releaseLock(p, id, at, next) ==
  /\ pc[p] = at
  /\ locks' = locks \ {id}
  /\ IF next = "done"
       THEN Leave(p) /\ UNCHANGED result
       ELSE Goto(p, next) /\ UNCHANGED <<result, nSucc>>
  /\ UNCHANGED <<accounts, balance, initial, log, call, appended, pre, view, apiVars>>

\* logger.info(...) then `return log`: the logger call returns, or throws.
loggerInfo(p, at, next) ==
  /\ pc[p] = at
  /\ \E thrown \in BOOLEAN :
       Outcome(p, IF thrown THEN "LoggerError" ELSE "ok", next)
  /\ UNCHANGED <<accounts, balance, initial, log, locks, call, appended, pre,
                 nSucc, view, apiVars>>

\* the entry put in front of the log instead of behind it
push_front(p, entry, at, next) ==
  /\ pc[p] = at
  /\ log' = <<entry>> \o log
  /\ appended' = [appended EXCEPT ![p] = TRUE]
  /\ Goto(p, next)
  /\ UNCHANGED <<accounts, balance, initial, locks, call, result, pre, nSucc,
                 view, apiVars>>

\* this.transactions.push(log)
push(p, entry, at, next) ==
  /\ pc[p] = at
  /\ log' = Append(log, entry)
  /\ appended' = [appended EXCEPT ![p] = TRUE]
  /\ Goto(p, next)
  /\ UNCHANGED <<accounts, balance, initial, locks, call, result, pre, nSucc,
                 view, apiVars>>

\* ---- deposit ----

depositAcquire(p) == acquireLock(p, call[p].toId, "d_acquire", "d_check")

depositCheck(p) ==
  /\ pc[p] = "d_check"
  /\ IF ~amountPositive(call[p].amount)
       THEN Outcome(p, "InvalidAmount", "d_release")
       ELSE IF call[p].toId \notin accounts
         THEN Outcome(p, "AccountNotFound", "d_release")
         ELSE Goto(p, "d_add") /\ UNCHANGED result
  /\ UNCHANGED <<accounts, balance, initial, log, locks, call, appended, pre,
                 nSucc, view, apiVars>>

depositAdd(p) ==
  /\ pc[p] = "d_add"
  /\ balance' = [balance EXCEPT ![call[p].toId] = credit(@, call[p].amount)]
  /\ Goto(p, "d_push")
  /\ UNCHANGED <<accounts, initial, log, locks, call, result, appended, pre,
                 nSucc, view, apiVars>>

depositPush(p) ==
  push(p, depositLog(call[p].toId, call[p].amount), "d_push", "d_logger")

depositLogger(p) == loggerInfo(p, "d_logger", "d_release")

depositRelease(p) == releaseLock(p, call[p].toId, "d_release", "done")

deposit(p) ==
  \/ depositAcquire(p)
  \/ depositCheck(p)
  \/ depositAdd(p)
  \/ depositPush(p)
  \/ depositLogger(p)
  \/ depositRelease(p)

\* ---- withdraw ----

withdrawAcquire(p) == acquireLock(p, call[p].fromId, "w_acquire", "w_check")

\* the funds test made after the subtraction instead of before it
withdrawCheck_late(p) ==
  /\ pc[p] = "w_check"
  /\ IF ~amountPositive(call[p].amount)
       THEN Outcome(p, "InvalidAmount", "w_release") /\ UNCHANGED balance
       ELSE IF call[p].fromId \notin accounts
         THEN Outcome(p, "AccountNotFound", "w_release") /\ UNCHANGED balance
         ELSE IF ~sufficientFunds(balance[call[p].fromId], call[p].amount)
           THEN /\ Outcome(p, "InsufficientFunds", "w_release")
                /\ balance' = [balance EXCEPT ![call[p].fromId] =
                                 debit(@, call[p].amount)]
           ELSE /\ Goto(p, "w_push")
                /\ balance' = [balance EXCEPT ![call[p].fromId] =
                                 debit(@, call[p].amount)]
                /\ UNCHANGED result
  /\ UNCHANGED <<accounts, initial, log, locks, call, appended, pre, nSucc,
                 view, apiVars>>

withdrawCheck(p) ==
  /\ pc[p] = "w_check"
  /\ IF ~amountPositive(call[p].amount)
       THEN Outcome(p, "InvalidAmount", "w_release")
       ELSE IF call[p].fromId \notin accounts
         THEN Outcome(p, "AccountNotFound", "w_release")
         ELSE IF ~sufficientFunds(balance[call[p].fromId], call[p].amount)
           THEN Outcome(p, "InsufficientFunds", "w_release")
           ELSE Goto(p, "w_subtract") /\ UNCHANGED result
  /\ UNCHANGED <<accounts, balance, initial, log, locks, call, appended, pre,
                 nSucc, view, apiVars>>

withdrawSubtract(p) ==
  /\ pc[p] = "w_subtract"
  /\ balance' = [balance EXCEPT ![call[p].fromId] = debit(@, call[p].amount)]
  /\ Goto(p, "w_push")
  /\ UNCHANGED <<accounts, initial, log, locks, call, result, appended, pre,
                 nSucc, view, apiVars>>

withdrawPush(p) ==
  push(p, withdrawLog(call[p].fromId, call[p].amount), "w_push", "w_logger")

withdrawLogger(p) == loggerInfo(p, "w_logger", "w_release")

withdrawRelease(p) == releaseLock(p, call[p].fromId, "w_release", "done")

withdraw(p) ==
  \/ withdrawAcquire(p)
  \/ withdrawCheck(p)
  \/ withdrawSubtract(p)
  \/ withdrawPush(p)
  \/ withdrawLogger(p)
  \/ withdrawRelease(p)


\* ---- transfer ----

\* transfer without the self-transfer test
transferAcquire1_noSelfTest(p) ==
  /\ pc[p] = "t_acquire1"
  /\ IF ~amountPositive(call[p].amount)
       THEN /\ Throw(p, "InvalidAmount")
            /\ UNCHANGED <<accounts, balance, initial, log, locks, call,
                           appended, pre, view, apiVars>>
       ELSE acquireLock(p, sortIds(call[p].fromId, call[p].toId)[1],
                        "t_acquire1", "t_acquire2")

\* the self-transfer and amount tests, the sort and acquireLock(first)
transferAcquire1(p) ==
  /\ pc[p] = "t_acquire1"
  /\ IF call[p].fromId = call[p].toId
       THEN /\ Throw(p, "SelfTransfer")
            /\ UNCHANGED <<accounts, balance, initial, log, locks, call,
                           appended, pre, view, apiVars>>
       ELSE IF ~amountPositive(call[p].amount)
         THEN /\ Throw(p, "InvalidAmount")
              /\ UNCHANGED <<accounts, balance, initial, log, locks, call,
                             appended, pre, view, apiVars>>
         ELSE acquireLock(p, sortIds(call[p].fromId, call[p].toId)[1],
                          "t_acquire1", "t_acquire2")

transferAcquire2(p) ==
  acquireLock(p, sortIds(call[p].fromId, call[p].toId)[2],
              "t_acquire2", "t_check")

transferCheck(p) ==
  /\ pc[p] = "t_check"
  /\ IF call[p].fromId \notin accounts \/ call[p].toId \notin accounts
       THEN Outcome(p, "AccountNotFound", "t_release2") /\ UNCHANGED pre
       ELSE IF ~sufficientFunds(balance[call[p].fromId], call[p].amount)
         THEN Outcome(p, "InsufficientFunds", "t_release2") /\ UNCHANGED pre
         ELSE /\ Goto(p, "t_debit")
              /\ pre' = [pre EXCEPT ![p] = <<balance[call[p].fromId],
                                             balance[call[p].toId]>>]
              /\ UNCHANGED result
  /\ UNCHANGED <<accounts, balance, initial, log, locks, call, appended,
                 nSucc, view, apiVars>>

transferDebit(p) ==
  /\ pc[p] = "t_debit"
  /\ balance' = [balance EXCEPT ![call[p].fromId] = debit(@, call[p].amount)]
  /\ Goto(p, "t_credit")
  /\ UNCHANGED <<accounts, initial, log, locks, call, result, appended, pre,
                 nSucc, view, apiVars>>

transferCredit(p) ==
  /\ pc[p] = "t_credit"
  /\ balance' = [balance EXCEPT ![call[p].toId] = credit(@, call[p].amount)]
  /\ Goto(p, "t_push")
  /\ UNCHANGED <<accounts, initial, log, locks, call, result, appended, pre,
                 nSucc, view, apiVars>>

transferPush(p) ==
  push(p, transferLog(call[p].fromId, call[p].toId, call[p].amount),
       "t_push", "t_logger")

transferLogger(p) == loggerInfo(p, "t_logger", "t_release2")

\* the first lock released where the second should be
transferRelease2_first(p) ==
  releaseLock(p, sortIds(call[p].fromId, call[p].toId)[1],
              "t_release2", "t_release1")

transferRelease2(p) ==
  releaseLock(p, sortIds(call[p].fromId, call[p].toId)[2],
              "t_release2", "t_release1")

transferRelease1(p) ==
  releaseLock(p, sortIds(call[p].fromId, call[p].toId)[1],
              "t_release1", "done")

transfer(p) ==
  \/ transferAcquire1(p)
  \/ transferAcquire2(p)
  \/ transferCheck(p)
  \/ transferDebit(p)
  \/ transferCredit(p)
  \/ transferPush(p)
  \/ transferLogger(p)
  \/ transferRelease2(p)
  \/ transferRelease1(p)

\* ---- the read methods: no lock ----

\* the callers whose transfer has debited its source and not yet credited
\* its destination
halfDone == {p \in Procs : pc[p] = "t_credit"}

getAccount(id) ==
  /\ view' = [seen |-> TRUE,
              half |-> \E p \in halfDone : id \in {call[p].fromId, call[p].toId}]
  /\ UNCHANGED <<accounts, balance, initial, log, locks, pc, call, result,
                 appended, pre, nSucc, apiVars>>

getAllAccounts ==
  /\ view' = [seen |-> TRUE, half |-> halfDone # {}]
  /\ UNCHANGED <<accounts, balance, initial, log, locks, pc, call, result,
                 appended, pre, nSucc, apiVars>>

\* the filter matching the source side of an entry only
getTransactionLogs_fromOnly(id) ==
  IF id \notin accounts
    THEN [error |-> "AccountNotFound", entries |-> <<>>]
    ELSE [error |-> "none",
          entries |-> SelectSeq(log, LAMBDA t : t.fromAccountId = id)]

\* getTransactionLogs(id): throws for an unknown id, else filters the log
getTransactionLogs(id) ==
  IF id \notin accounts
    THEN [error |-> "AccountNotFound", entries |-> <<>>]
    ELSE [error |-> "none",
          entries |-> SelectSeq(log, LAMBDA t : \/ t.fromAccountId = id
                                                \/ t.toAccountId = id)]

\* getAllTransactions(): the log itself
getAllTransactions == log

\* ---- the specifications ----

Call ==
  \E p \in Procs, amount \in Amounts :
    \/ \E id \in Ids : CallDeposit(p, id, amount)
    \/ \E id \in Ids : CallWithdraw(p, id, amount)
    \/ \E fromId \in Ids, toId \in Ids : CallTransfer(p, fromId, toId, amount)

Step(p) == deposit(p) \/ withdraw(p) \/ transfer(p)

Next ==
  \/ \E id \in Ids, bal \in InitBalances : createAccount(id, bal)
  \/ Call
  \/ \E p \in Procs : Step(p)
  \/ \E p \in Procs : Return(p)

Spec == Init /\ [][Next]_vars

\* Spec with callers of the read methods beside it
Read ==
  \/ \E id \in Ids : getAccount(id)
  \/ getAllAccounts

NextRead == Next \/ Read

ReadSpec == Init /\ [][NextRead]_vars


\* Each caller keeps executing the call it is in.
FairSpec == Spec /\ \A p \in Procs : WF_vars(Step(p))

\* Callers that issue transfers only, each executing the transfer it is in.
TransferNext ==
  \/ \E id \in Ids, bal \in InitBalances : createAccount(id, bal)
  \/ \E p \in Procs, amount \in Amounts, fromId \in Ids, toId \in Ids :
       CallTransfer(p, fromId, toId, amount)
  \/ \E p \in Procs : transfer(p)
  \/ \E p \in Procs : Return(p)

TransferFairSpec ==
  Init /\ [][TransferNext]_vars /\ \A p \in Procs : WF_vars(transfer(p))

\* ---- the clock ----

ledgerVars == <<accounts, names, balance, initial, log, locks>>
callerVars == <<pc, call, result, appended, pre, nSucc, view>>
procVars == <<callerVars, v1>>

\* time passes
Tick ==
  /\ now < MaxTime
  /\ now' = now + 1
  /\ UNCHANGED <<ledgerVars, procVars, utcOffset, outcome, request, response>>

\* summer time ends: the local clocks of the zone are set back
ClockBack ==
  /\ utcOffset = SummerOffset
  /\ utcOffset' = 0
  /\ UNCHANGED <<ledgerVars, procVars, now, outcome, request, response>>

\* formatTimestamp(date): the reading of the local clock at that instant
\* (getFullYear() ... getSeconds()), written most significant field first
formatTimestamp(date) == date + utcOffset

\* the entry with its `timestamp: this.formatTimestamp(new Date())`
stamped(e) == e @@ ("timestamp" :> formatTimestamp(now))

\* ---- the methods run from call to return by a caller that is alone ----

\* the call has applied its balance update and its push
Applied(r) == r \in {"ok", "LoggerError"}

createAccountResult_any(bal) == "ok"
createAccountResult(bal) == IF bal < 0 THEN "InvalidAmount" ELSE "ok"

\* createAccount with an id that is not fresh: accounts.set(id, account)
\* replaces the account of that id
createAccountEffect_reusing(id, name, bal) ==
  /\ IF createAccountResult(bal) = "ok"
       THEN /\ accounts' = accounts \cup {id}
            /\ names' = [names EXCEPT ![id] = name]
            /\ balance' = [balance EXCEPT ![id] = bal]
            /\ initial' = [initial EXCEPT ![id] = bal]
       ELSE UNCHANGED <<accounts, names, balance, initial>>
  /\ UNCHANGED <<log, locks>>

\* createAccount(name, balance), id being the uuid it draws
createAccountEffect(id, name, bal) ==
  /\ id \notin accounts
  /\ IF createAccountResult(bal) = "ok"
       THEN /\ accounts' = accounts \cup {id}
            /\ names' = [names EXCEPT ![id] = name]
            /\ balance' = [balance EXCEPT ![id] = bal]
            /\ initial' = [initial EXCEPT ![id] = bal]
       ELSE UNCHANGED <<accounts, names, balance, initial>>
  /\ UNCHANGED <<log, locks>>

accountExists_never(name) == FALSE
accountExists(name) == \E id \in accounts : names[id] = name

depositResult(id, amount, thrown) ==
  IF ~acquireLockOk(id) THEN "Busy"
  ELSE IF ~amountPositive(amount) THEN "InvalidAmount"
  ELSE IF id \notin accounts THEN "AccountNotFound"
  ELSE IF thrown THEN "LoggerError" ELSE "ok"

\* deposit with releaseLock as the last statement of the try block, not in a
\* finally block: a throw after acquireLock leaves the lock behind
depositEffect_noFinally(id, amount, thrown) ==
  /\ IF Applied(depositResult(id, amount, thrown))
       THEN /\ balance' = [balance EXCEPT ![id] = credit(@, amount)]
            /\ log' = Append(log, stamped(depositLog(id, amount)))
       ELSE UNCHANGED <<balance, log>>
  /\ locks' = IF depositResult(id, amount, thrown)
                   \in {"InvalidAmount", "AccountNotFound", "LoggerError"}
               THEN locks \cup {id}
               ELSE locks
  /\ UNCHANGED <<accounts, names, initial>>

depositEffect(id, amount, thrown) ==
  /\ IF Applied(depositResult(id, amount, thrown))
       THEN /\ balance' = [balance EXCEPT ![id] = credit(@, amount)]
            /\ log' = Append(log, stamped(depositLog(id, amount)))
       ELSE UNCHANGED <<balance, log>>
  /\ UNCHANGED <<accounts, names, initial, locks>>

withdrawResult(id, amount, thrown) ==
  IF ~acquireLockOk(id) THEN "Busy"
  ELSE IF ~amountPositive(amount) THEN "InvalidAmount"
  ELSE IF id \notin accounts THEN "AccountNotFound"
  ELSE IF ~sufficientFunds(balance[id], amount) THEN "InsufficientFunds"
  ELSE IF thrown THEN "LoggerError" ELSE "ok"

withdrawEffect(id, amount, thrown) ==
  /\ IF Applied(withdrawResult(id, amount, thrown))
       THEN /\ balance' = [balance EXCEPT ![id] = debit(@, amount)]
            /\ log' = Append(log, stamped(withdrawLog(id, amount)))
       ELSE UNCHANGED <<balance, log>>
  /\ UNCHANGED <<accounts, names, initial, locks>>

transferResult(fromId, toId, amount, thrown) ==
  IF fromId = toId THEN "SelfTransfer"
  ELSE IF ~amountPositive(amount) THEN "InvalidAmount"
  ELSE IF \E i \in {1, 2} : ~acquireLockOk(sortIds(fromId, toId)[i])
    THEN "Busy"
  ELSE IF fromId \notin accounts \/ toId \notin accounts
    THEN "AccountNotFound"
  ELSE IF ~sufficientFunds(balance[fromId], amount) THEN "InsufficientFunds"
  ELSE IF thrown THEN "LoggerError" ELSE "ok"

transferEffect(fromId, toId, amount, thrown) ==
  /\ IF Applied(transferResult(fromId, toId, amount, thrown))
       THEN /\ balance' = [balance EXCEPT ![fromId] = debit(@, amount),
                                         ![toId] = credit(@, amount)]
            /\ log' = Append(log, stamped(transferLog(fromId, toId, amount)))
       ELSE UNCHANGED <<balance, log>>
  /\ locks' = IF /\ transferResult(fromId, toId, amount, thrown) = "Busy"
                 /\ acquireLockOk(sortIds(fromId, toId)[1])
               THEN locks \cup {sortIds(fromId, toId)[1]}
               ELSE locks
  /\ UNCHANGED <<accounts, names, initial>>

\* what the caller of a method has in hand afterwards
Returned(op, r, value, id, arg, name) ==
  outcome' = [op |-> op, result |-> r, value |-> value, id |-> id,
              arg |-> arg, name |-> name]

\* no other call is in progress
Alone == \A p \in Procs : pc[p] = "idle"

createAccountRun(id, name, bal) ==
  /\ Alone
  /\ createAccountEffect(id, name, bal)
  /\ Returned("createAccount", createAccountResult(bal),
              IF createAccountResult(bal) = "ok" THEN "account" ELSE "none",
              IF createAccountResult(bal) = "ok" THEN id ELSE None, bal, name)
  /\ UNCHANGED <<procVars, now, utcOffset, request, response>>

depositRun(id, amount, thrown) ==
  /\ Alone
  /\ depositEffect(id, amount, thrown)
  /\ Returned("deposit", depositResult(id, amount, thrown),
              IF depositResult(id, amount, thrown) = "ok"
                THEN "entry" ELSE "none", id, amount, NoName)
  /\ UNCHANGED <<procVars, now, utcOffset, request, response>>

withdrawRun(id, amount, thrown) ==
  /\ Alone
  /\ withdrawEffect(id, amount, thrown)
  /\ Returned("withdraw", withdrawResult(id, amount, thrown),
              IF withdrawResult(id, amount, thrown) = "ok"
                THEN "entry" ELSE "none", id, amount, NoName)
  /\ UNCHANGED <<procVars, now, utcOffset, request, response>>

transferRun(fromId, toId, amount, thrown) ==
  /\ Alone
  /\ transferEffect(fromId, toId, amount, thrown)
  /\ Returned("transfer", transferResult(fromId, toId, amount, thrown),
              IF transferResult(fromId, toId, amount, thrown) = "ok"
                THEN "entry" ELSE "none", fromId, amount, NoName)
  /\ UNCHANGED <<procVars, now, utcOffset, request, response>>

\* a read method that empties the log it reads
readFrame_clearing ==
  /\ log' = <<>>
  /\ UNCHANGED <<accounts, names, balance, initial, locks>>
  /\ UNCHANGED <<procVars, now, utcOffset, request, response>>

\* what a read method writes: nothing
readFrame ==
  /\ UNCHANGED ledgerVars
  /\ UNCHANGED <<procVars, now, utcOffset, request, response>>

accountExistsRun(name) ==
  /\ Alone
  /\ Returned("accountExists", "ok",
              IF accountExists(name) THEN "true" ELSE "false", None, 0, name)
  /\ readFrame

getAccountRun(id) ==
  /\ Alone
  /\ Returned("getAccount", "ok",
              IF id \in accounts THEN "account" ELSE "undefined", id, 0,
              NoName)
  /\ readFrame

getTransactionLogsRun(id) ==
  /\ Alone
  /\ Returned("getTransactionLogs",
              IF getTransactionLogs(id).error = "none"
                THEN "ok" ELSE getTransactionLogs(id).error,
              IF getTransactionLogs(id).error = "none"
                THEN "list" ELSE "none", id, 0, NoName)
  /\ readFrame

getAllAccountsRun ==
  /\ Alone
  /\ Returned("getAllAccounts", "ok", "list", None, 0, NoName)
  /\ readFrame

getAllTransactionsRun ==
  /\ Alone
  /\ Returned("getAllTransactions", "ok", "list", None, 0, NoName)
  /\ readFrame

\* The lone caller of ServiceSpec makes its calls of deposit, withdraw and
\* transfer while the log is empty.
ServiceWrite ==
  \/ \E id \in Ids, name \in Names, bal \in InitBalances :
       createAccountRun(id, name, bal)
  \/ \E id \in Ids, amount \in Amounts, thrown \in BOOLEAN :
       Room /\ depositRun(id, amount, thrown)
  \/ \E id \in Ids, amount \in Amounts, thrown \in BOOLEAN :
       Room /\ withdrawRun(id, amount, thrown)
  \/ \E fromId \in Ids, toId \in Ids, amount \in Amounts, thrown \in BOOLEAN :
       Room /\ transferRun(fromId, toId, amount, thrown)

ServiceRead ==
  \/ \E name \in Names : accountExistsRun(name)
  \/ \E id \in Ids : getAccountRun(id)
  \/ \E id \in Ids : getTransactionLogsRun(id)
  \/ getAllAccountsRun
  \/ getAllTransactionsRun

ServiceNext == ServiceWrite \/ ServiceRead

ServiceSpec == Init /\ [][ServiceNext]_vars

\* ---- the routes ----

\* body('amount').isNumeric().bail().isFloat({ gt: 0 })
validAmount(amount) == amount > 0
\* body('balance').isNumeric().bail().isFloat({ min: 0 })
validBalance(bal) == bal >= 0
\* body('name').isString().bail().notEmpty()
validName(name) == name # NoName

Received(route, id, toId, amount, name, extra) ==
  request' = [route |-> route, id |-> id, toId |-> toId, amount |-> amount,
              name |-> name, extra |-> extra, auth |-> "valid",
              early |-> "none"]

Respond(status, success, error) ==
  response' = [status |-> status, success |-> success, error |-> error]

\* handleValidationErrors and allowOnlyFields answer the request themselves
\* and the handler is not run
Rejected(valid, extra) == ~valid \/ extra

Reject(valid, extra) ==
  /\ Respond(400, FALSE, IF ~valid THEN "InvalidInput" ELSE "UnexpectedFields")
  /\ outcome' = NoOutcome
  /\ UNCHANGED ledgerVars

\* the catch blocks of the deposit and withdraw routes
errorStatus(r) == IF r = "AccountNotFound" THEN 404 ELSE 400

\* the catch block of the transfer route
transferErrorStatus_notFound(r) == IF r = "AccountNotFound" THEN 404 ELSE 400
transferErrorStatus(r) == 400

\* POST /accounts, id being the uuid createAccount would draw
postAccounts(id, name, bal, extra) ==
  /\ Alone
  /\ Received("POST /accounts", None, None, bal, name, extra)
  /\ IF Rejected(validName(name) /\ validBalance(bal), extra)
       THEN Reject(validName(name) /\ validBalance(bal), extra)
       ELSE IF accountExists(name)
         THEN /\ Respond(409, FALSE, "AccountAlreadyExists")
              /\ Returned("accountExists", "ok", "true", None, 0, name)
              /\ UNCHANGED ledgerVars
         ELSE /\ createAccountEffect(id, name, bal)
              /\ Returned("createAccount", createAccountResult(bal),
                          IF createAccountResult(bal) = "ok"
                            THEN "account" ELSE "none",
                          IF createAccountResult(bal) = "ok"
                            THEN id ELSE None, bal, name)
              /\ IF createAccountResult(bal) = "ok"
                   THEN Respond(201, TRUE, "none")
                   ELSE Respond(400, FALSE, createAccountResult(bal))
  /\ UNCHANGED <<procVars, now, utcOffset>>

\* GET /accounts/:id
getAccountById(id) ==
  /\ Alone
  /\ Received("GET /accounts/:id", id, None, 0, NoName, FALSE)
  /\ Returned("getAccount", "ok",
              IF id \in accounts THEN "account" ELSE "undefined", id, 0,
              NoName)
  /\ IF id \in accounts
       THEN Respond(200, TRUE, "none")
       ELSE Respond(404, FALSE, "AccountNotFound")
  /\ UNCHANGED <<ledgerVars, procVars, now, utcOffset>>

\* the validators and the handler of POST /accounts/:id/deposit
depositHandler(id, amount, extra, thrown) ==
  IF Rejected(validAmount(amount), extra)
    THEN Reject(validAmount(amount), extra)
    ELSE LET r == depositResult(id, amount, thrown)
         IN /\ depositEffect(id, amount, thrown)
            /\ Returned("deposit", r, IF r = "ok" THEN "entry" ELSE "none",
                        id, amount, NoName)
            /\ IF r = "ok"
                 THEN Respond(200, TRUE, "none")
                 ELSE Respond(errorStatus(r), FALSE, r)

\* POST /accounts/:id/deposit
postDeposit(id, amount, extra, thrown) ==
  /\ Alone
  /\ Received("POST /accounts/:id/deposit", id, None, amount, NoName, extra)
  /\ depositHandler(id, amount, extra, thrown)
  /\ UNCHANGED <<procVars, now, utcOffset>>

\* POST /accounts/:id/withdraw
postWithdraw(id, amount, extra, thrown) ==
  /\ Alone
  /\ Received("POST /accounts/:id/withdraw", id, None, amount, NoName, extra)
  /\ IF Rejected(validAmount(amount), extra)
       THEN Reject(validAmount(amount), extra)
       ELSE LET r == withdrawResult(id, amount, thrown)
            IN /\ withdrawEffect(id, amount, thrown)
               /\ Returned("withdraw", r, IF r = "ok" THEN "entry" ELSE "none",
                           id, amount, NoName)
               /\ IF r = "ok"
                    THEN Respond(200, TRUE, "none")
                    ELSE Respond(errorStatus(r), FALSE, r)
  /\ UNCHANGED <<procVars, now, utcOffset>>

\* POST /accounts/transfer
postTransfer(fromId, toId, amount, extra, thrown) ==
  /\ Alone
  /\ Received("POST /accounts/transfer", fromId, toId, amount, NoName, extra)
  /\ IF Rejected(validAmount(amount), extra)
       THEN Reject(validAmount(amount), extra)
       ELSE LET r == transferResult(fromId, toId, amount, thrown)
            IN /\ transferEffect(fromId, toId, amount, thrown)
               /\ Returned("transfer", r, IF r = "ok" THEN "entry" ELSE "none",
                           fromId, amount, NoName)
               /\ IF r = "ok"
                    THEN Respond(200, TRUE, "none")
                    ELSE Respond(transferErrorStatus(r), FALSE, r)
  /\ UNCHANGED <<procVars, now, utcOffset>>

\* GET /accounts/:id/transactions
getAccountTransactions(id) ==
  /\ Alone
  /\ Received("GET /accounts/:id/transactions", id, None, 0, NoName, FALSE)
  /\ LET logs == getTransactionLogs(id)
     IN IF logs.error = "none"
          THEN /\ Returned("getTransactionLogs", "ok", "list", id, 0, NoName)
               /\ Respond(200, TRUE, "none")
          ELSE /\ Returned("getTransactionLogs", logs.error, "none", id, 0,
                           NoName)
               /\ Respond(404, FALSE, logs.error)
  /\ UNCHANGED <<ledgerVars, procVars, now, utcOffset>>

\* GET /accounts
getAccounts ==
  /\ Alone
  /\ Received("GET /accounts", None, None, 0, NoName, FALSE)
  /\ Returned("getAllAccounts", "ok", "list", None, 0, NoName)
  /\ Respond(200, TRUE, "none")
  /\ UNCHANGED <<ledgerVars, procVars, now, utcOffset>>

\* GET /transactions
getTransactions ==
  /\ Alone
  /\ Received("GET /transactions", None, None, 0, NoName, FALSE)
  /\ Returned("getAllTransactions", "ok", "list", None, 0, NoName)
  /\ Respond(200, TRUE, "none")
  /\ UNCHANGED <<ledgerVars, procVars, now, utcOffset>>

\* GET /simulate-error: the handler throws, the 500 handler of the app answers
getSimulateError ==
  /\ Alone
  /\ Received("GET /simulate-error", None, None, 0, NoName, FALSE)
  /\ Returned("none", "SimulatedError", "none", None, 0, NoName)
  /\ Respond(500, FALSE, "InternalServerError")
  /\ UNCHANGED <<ledgerVars, procVars, now, utcOffset>>

\* any other path: the 404 handler of the app answers
notFoundHandler ==
  /\ Alone
  /\ Received("unknown", None, None, 0, NoName, FALSE)
  /\ outcome' = NoOutcome
  /\ Respond(404, FALSE, "NotFound")
  /\ UNCHANGED <<ledgerVars, procVars, now, utcOffset>>

\* ---- the middleware of the app in front of the routes ----

\* the JWT check that hands on every token without verifying it
middlewareStatus_noVerify(auth, early) ==
  IF early = "badBody" THEN 500
  ELSE IF early = "limited" THEN 429
  ELSE IF auth \in {"noHeader", "notBearer"} THEN 401
  ELSE 0

\* The status the chain express.json(), rateLimit, JWT middleware answers a
\* request under /api with, 0 when each of them calls next(): a parse error
\* goes to the 500 handler, the limiter answers 429, the JWT middleware 401.
middlewareStatus(auth, early) ==
  IF early = "badBody" THEN 500
  ELSE IF early = "limited" THEN 429
  ELSE IF auth \in {"noHeader", "notBearer"} THEN 401
  ELSE IF auth = "badToken" THEN 401
  ELSE 0

middlewareError(auth, early) ==
  IF early = "badBody" THEN "InternalServerError"
  ELSE IF early = "limited" THEN "TooManyRequests"
  ELSE IF auth \in {"noHeader", "notBearer"} THEN "MissingToken"
  ELSE IF auth = "badToken" THEN "InvalidToken"
  ELSE "none"

\* POST /api/accounts/:id/deposit sent with any Authorization header: the
\* chain answers it, or hands it to the route
apiDeposit(auth, early, id, amount, thrown) ==
  /\ Alone
  /\ request' = [route |-> "POST /accounts/:id/deposit", id |-> id,
                 toId |-> None, amount |-> amount, name |-> NoName,
                 extra |-> FALSE, auth |-> auth, early |-> early]
  /\ IF middlewareStatus(auth, early) # 0
       THEN /\ Respond(middlewareStatus(auth, early), FALSE,
                       middlewareError(auth, early))
            /\ outcome' = NoOutcome
            /\ UNCHANGED ledgerVars
       ELSE depositHandler(id, amount, FALSE, thrown)
  /\ UNCHANGED <<procVars, now, utcOffset>>

\* The requests that reach deposit, withdraw or transfer are sent while the
\* log is empty; but for those of apiDeposit, the requests carry a valid
\* token.
ApiNext ==
  \/ \E auth \in Auths, early \in Earlies, id \in Ids, amount \in Amounts,
        thrown \in BOOLEAN :
       Room /\ apiDeposit(auth, early, id, amount, thrown)
  \/ \E id \in Ids, name \in Names \cup {NoName}, bal \in InitBalances,
        extra \in BOOLEAN : postAccounts(id, name, bal, extra)
  \/ \E id \in Ids : getAccountById(id)
  \/ \E id \in Ids, amount \in Amounts, extra \in BOOLEAN, thrown \in BOOLEAN :
       Room /\ postDeposit(id, amount, extra, thrown)
  \/ \E id \in Ids, amount \in Amounts, extra \in BOOLEAN, thrown \in BOOLEAN :
       Room /\ postWithdraw(id, amount, extra, thrown)
  \/ \E fromId \in Ids, toId \in Ids, amount \in Amounts, extra \in BOOLEAN,
        thrown \in BOOLEAN :
       Room /\ postTransfer(fromId, toId, amount, extra, thrown)
  \/ \E id \in Ids : getAccountTransactions(id)
  \/ getAccounts
  \/ getTransactions
  \/ getSimulateError
  \/ notFoundHandler

ApiSpec == Init /\ [][ApiNext]_vars

\* The lone caller of ClockSpec opens empty accounts and makes deposits, up
\* to MaxLog of them, while the clock moves.
LogRoom == Len(log) < MaxLog

ClockNext ==
  \/ \E id \in Ids, name \in Names : createAccountRun(id, name, 0)
  \/ \E id \in Ids, amount \in Amounts, thrown \in BOOLEAN :
       LogRoom /\ depositRun(id, amount, thrown)
  \/ Tick
  \/ ClockBack

ClockSpec == Init /\ [][ClockNext]_vars

\* ---- services/BankingService.ts: no locks, a transactions list per account ----

\* the TransactionLog objects of lines 24-30, 41-47 and 62-69, less their
\* uuid and timestamp
v1Log(type, fromId, toId, amount) ==
  [type |-> type, fromAccountId |-> fromId, toAccountId |-> toId,
   amount |-> amount]

\* createAccount(name, balance), id being the uuid it draws
v1CreateAccount(s, id, bal) ==
  IF bal < 0 THEN [s EXCEPT !.result = "InvalidAmount"]
  ELSE [s EXCEPT !.accounts = @ \cup {id}, !.balance[id] = bal,
                 !.transactions[id] = <<>>, !.result = "ok"]

v1Deposit(s, id, amount) ==
  IF amount <= 0 THEN [s EXCEPT !.result = "InvalidAmount"]
  ELSE IF id \notin s.accounts THEN [s EXCEPT !.result = "AccountNotFound"]
  ELSE [s EXCEPT !.balance[id] = @ + amount,
                 !.transactions[id] =
                    Append(@, v1Log("deposit", None, id, amount)),
                 !.result = "ok"]

v1Withdraw(s, id, amount) ==
  IF amount <= 0 THEN [s EXCEPT !.result = "InvalidAmount"]
  ELSE IF id \notin s.accounts THEN [s EXCEPT !.result = "AccountNotFound"]
  ELSE IF s.balance[id] < amount
    THEN [s EXCEPT !.result = "InsufficientFunds"]
  ELSE [s EXCEPT !.balance[id] = @ - amount,
                 !.transactions[id] =
                    Append(@, v1Log("withdraw", id, None, amount)),
                 !.result = "ok"]

\* transfer tests the amount before it tests fromId === toId
v1Transfer(s, fromId, toId, amount) ==
  IF amount <= 0 THEN [s EXCEPT !.result = "InvalidAmount"]
  ELSE IF fromId = toId THEN [s EXCEPT !.result = "SelfTransfer"]
  ELSE IF fromId \notin s.accounts \/ toId \notin s.accounts
    THEN [s EXCEPT !.result = "AccountNotFound"]
  ELSE IF s.balance[fromId] < amount
    THEN [s EXCEPT !.result = "InsufficientFunds"]
  ELSE [s EXCEPT !.balance[fromId] = @ - amount,
                 !.balance[toId] = @ + amount,
                 !.transactions[fromId] =
                    Append(@, v1Log("transfer", fromId, toId, amount)),
                 !.transactions[toId] =
                    Append(@, v1Log("transfer", fromId, toId, amount)),
                 !.result = "ok"]

\* getTransactionLogs(id): throws for an unknown id, else the account's list
v1GetTransactionLogs(s, id) ==
  IF id \notin s.accounts
    THEN [error |-> "AccountNotFound", entries |-> <<>>]
    ELSE [error |-> "none", entries |-> s.transactions[id]]

\* ---- the same calls made on both services, one call after the other ----

bothCreateAccount(id, name, bal) ==
  /\ Alone
  /\ createAccountEffect(id, name, bal)
  /\ Returned("createAccount", createAccountResult(bal),
              IF createAccountResult(bal) = "ok" THEN "account" ELSE "none",
              IF createAccountResult(bal) = "ok" THEN id ELSE None, bal, name)
  /\ v1' = v1CreateAccount(v1, id, bal)
  /\ UNCHANGED <<callerVars, now, utcOffset, request, response>>

bothDeposit(id, amount, thrown) ==
  /\ Alone
  /\ depositEffect(id, amount, thrown)
  /\ Returned("deposit", depositResult(id, amount, thrown),
              IF depositResult(id, amount, thrown) = "ok"
                THEN "entry" ELSE "none", id, amount, NoName)
  /\ v1' = v1Deposit(v1, id, amount)
  /\ UNCHANGED <<callerVars, now, utcOffset, request, response>>

bothWithdraw(id, amount, thrown) ==
  /\ Alone
  /\ withdrawEffect(id, amount, thrown)
  /\ Returned("withdraw", withdrawResult(id, amount, thrown),
              IF withdrawResult(id, amount, thrown) = "ok"
                THEN "entry" ELSE "none", id, amount, NoName)
  /\ v1' = v1Withdraw(v1, id, amount)
  /\ UNCHANGED <<callerVars, now, utcOffset, request, response>>

bothTransfer(fromId, toId, amount, thrown) ==
  /\ Alone
  /\ transferEffect(fromId, toId, amount, thrown)
  /\ Returned("transfer", transferResult(fromId, toId, amount, thrown),
              IF transferResult(fromId, toId, amount, thrown) = "ok"
                THEN "entry" ELSE "none", fromId, amount, NoName)
  /\ v1' = v1Transfer(v1, fromId, toId, amount)
  /\ UNCHANGED <<callerVars, now, utcOffset, request, response>>

\* Sequences of calls that put up to MaxLog entries in the log.
BothNext ==
  \/ \E id \in Ids, name \in Names, bal \in InitBalances :
       bothCreateAccount(id, name, bal)
  \/ \E id \in Ids, amount \in Amounts, thrown \in BOOLEAN :
       LogRoom /\ bothDeposit(id, amount, thrown)
  \/ \E id \in Ids, amount \in Amounts, thrown \in BOOLEAN :
       LogRoom /\ bothWithdraw(id, amount, thrown)
  \/ \E fromId \in Ids, toId \in Ids, amount \in Amounts, thrown \in BOOLEAN :
       LogRoom /\ bothTransfer(fromId, toId, amount, thrown)

BothSpec == Init /\ [][BothNext]_vars

\* ---- state functions the properties use ----

InFlight(p) == pc[p] \notin {"idle", "done"}

\* the locks caller p has acquired and not yet released, by its position
holds(p) ==
  IF pc[p] \in {"d_check", "d_add", "d_push", "d_logger", "d_release"}
    THEN {call[p].toId}
  ELSE IF pc[p] \in {"w_check", "w_subtract", "w_push", "w_logger", "w_release"}
    THEN {call[p].fromId}
  ELSE IF pc[p] \in {"t_acquire2", "t_release1"}
    THEN {sortIds(call[p].fromId, call[p].toId)[1]}
  ELSE IF pc[p] \in {"t_check", "t_debit", "t_credit", "t_push", "t_logger",
                     "t_release2"}
    THEN {call[p].fromId, call[p].toId}
  ELSE {}

Smaller(a, b) == CHOOSE x \in {a, b} : \A y \in {a, b} : x <= y
Larger(a, b) == CHOOSE x \in {a, b} : \A y \in {a, b} : y <= x


\* ---- properties ----

\* C1: in every reachable state, whatever the interleaving of createAccount,
\* deposit, withdraw and transfer calls, every account's balance is >= 0.
NonNegativeBalance == \A id \in accounts : balance[id] >= 0

\* Two callers drew on the same account at once: one emptied it, the other
\* was refused for insufficient funds.
RacedWithdrawals ==
  \E p \in Procs, q \in Procs :
    /\ p # q
    /\ pc[p] = "done" /\ result[p] = "ok"
    /\ call[p].op \in {"withdraw", "transfer"}
    /\ balance[call[p].fromId] = 0
    /\ pc[q] = "done" /\ result[q] = "InsufficientFunds"
    /\ call[q].fromId = call[p].fromId

TransferEffect ==
  \A p \in Procs :
    (/\ call[p].op = "transfer"
     /\ \/ pc[p] \in {"t_push", "t_logger"}
        \/ pc[p] = "t_release2" /\ appended[p])
    => /\ balance[call[p].fromId] = pre[p][1] - call[p].amount
       /\ balance[call[p].toId] = pre[p][2] + call[p].amount
       /\ balance[call[p].fromId] + balance[call[p].toId]
            = pre[p][1] + pre[p][2]

\* The debit and the credit change no other account.
TransferFrame ==
  \A p \in Procs :
    (pc[p] \in {"t_debit", "t_credit"} /\ pc'[p] # pc[p])
    => \A i \in Ids \ {call[p].fromId, call[p].toId} :
         balance'[i] = balance[i]

SumMatchesLog ==
  SumOver(balance, accounts)
    = SumOver(initial, accounts) + SumLog(log, "deposit")
        - SumLog(log, "withdraw")

\* No deposit or withdraw is between its balance update and its push and no
\* transfer between its debit and its credit.
NoUpdatePending == \A p \in Procs : pc[p] \notin {"d_push", "w_push", "t_credit"}

\* C4 amended: in every reachable state with no update pending, the sum of
\* the balances is the sum of the initial balances plus the logged deposits
\* minus the logged withdrawals.
SumMatchesLogWhenSettled == NoUpdatePending => SumMatchesLog

\* Both callers are through, a withdrawal and a transfer are in the log.
WithdrawAndTransferLogged ==
  /\ \A p \in Procs : pc[p] = "done"
  /\ \E i \in 1..Len(log), j \in 1..Len(log) :
       log[i].type = "withdraw" /\ log[j].type = "transfer"

requested(p) ==
  IF pc[p] = "d_acquire" THEN {call[p].toId}
  ELSE IF pc[p] = "w_acquire" THEN {call[p].fromId}
  ELSE IF pc[p] = "t_acquire1" THEN {sortIds(call[p].fromId, call[p].toId)[1]}
  ELSE IF pc[p] = "t_acquire2" THEN {sortIds(call[p].fromId, call[p].toId)[2]}
  ELSE {}

\* No two callers each hold one lock and request the lock the other holds.
NoCircularHold ==
  \A p \in Procs, q \in Procs :
    ~(/\ p # q
      /\ pc[p] = "t_acquire2" /\ pc[q] = "t_acquire2"
      /\ requested(p) \subseteq holds(q)
      /\ requested(q) \subseteq holds(p))

\* C6: concurrent transfers in arbitrary and opposing directions all come to
\* an end, and no cycle of callers each holding one lock and requesting
\* another's is reachable.
DeadlockFree ==
  /\ []NoCircularHold
  /\ \A p \in Procs : InFlight(p) ~> (pc[p] = "done")

\* Two transfers in opposite directions are in flight, one of them holding
\* its first lock.
OpposingTransfersInFlight ==
  \E p \in Procs, q \in Procs :
    /\ p # q
    /\ call[p].op = "transfer" /\ call[q].op = "transfer"
    /\ call[p].fromId = call[q].toId /\ call[p].toId = call[q].fromId
    /\ call[p].fromId # call[p].toId
    /\ call[p].amount > 0 /\ call[q].amount > 0
    /\ pc[p] = "t_acquire2" /\ pc[q] = "t_acquire1"

\* The step at line 96 takes (or is refused on) the smaller id, the step at
\* line 97 the larger one.
LockOrderStep ==
  \A p \in Procs :
    LET lo == Smaller(call[p].fromId, call[p].toId)
        hi == Larger(call[p].fromId, call[p].toId)
    IN  /\ (pc[p] = "t_acquire1" /\ pc'[p] = "t_acquire2")
             => lo \notin locks /\ locks' = locks \cup {lo}
        /\ (pc[p] = "t_acquire1" /\ result'[p] = "Busy") => lo \in locks
        /\ (pc[p] = "t_acquire2" /\ pc'[p] = "t_check")
             => hi \notin locks /\ locks' = locks \cup {hi}
        /\ (pc[p] = "t_acquire2" /\ result'[p] = "Busy") => hi \in locks

\* C7: a transfer requests the lock of the smaller of its two ids first and
\* of the larger second, whichever of them is the source.
LockOrder == [][LockOrderStep]_vars

\* A transfer whose source is the larger id holds its first lock.
TransferFromLargerHoldsFirst ==
  \E p \in Procs :
    /\ pc[p] = "t_acquire2"
    /\ call[p].fromId > call[p].toId
    /\ call[p].toId \in locks

BusyStep ==
  \A p \in Procs :
    (/\ requested(p) # {}
     /\ requested(p) \subseteq locks
     /\ pc[p] = "t_acquire1"
          => call[p].fromId # call[p].toId /\ call[p].amount > 0
     /\ pc'[p] # pc[p])
    => /\ pc'[p] = "done"
       /\ result'[p] = "Busy"
       /\ balance' = balance
       /\ log' = log
       /\ locks' = locks

Exclusive ==
  \A p \in Procs, q \in Procs : p # q => holds(p) \cap holds(q) = {}

\* A step of another caller changes no balance of an account whose lock a
\* call holds.
Undisturbed ==
  \A p \in Procs :
    pc'[p] = pc[p]
    => \A i \in holds(p) \cap accounts : balance'[i] = balance[i]

\* C9: at most one call in flight is inside the critical section of an
\* account, and no step of another call touches the account between a call's
\* balance check and its balance update.
MutualExclusion == []Exclusive /\ [][Undisturbed]_vars

\* A withdrawal is between its balance check and its update while the other
\* caller is about to request the same account's lock.
ContendedWithdrawal ==
  \E p \in Procs, q \in Procs :
    /\ p # q
    /\ pc[p] = "w_subtract"
    /\ requested(q) = {call[p].fromId}

\* C10: the log has one entry for each call that has succeeded (and for each
\* call in flight that has pushed its entry and not yet ended), and a call
\* that has ended has pushed an entry exactly if it succeeded.
LogCompleteness ==
  /\ Len(log) = nSucc + Cardinality({p \in Procs : InFlight(p) /\ appended[p]})
  /\ \A p \in Procs : pc[p] = "done" => (result[p] = "ok" <=> appended[p])


\* C11: the log is append-only: in every step the log before is a prefix of
\* the log after, so no step removes, reorders or changes an entry.
IsPrefix(s, t) == Len(s) <= Len(t) /\ \A i \in 1..Len(s) : t[i] = s[i]

AppendOnly == [][IsPrefix(log, log')]_vars

\* The log has grown twice, by entries of different kinds.
LogGrewTwice == Len(log) = 2 /\ log[1].type # log[2].type

\* C12: a call that fails with InvalidAmount, AccountNotFound,
\* InsufficientFunds or SelfTransfer has changed no balance and no log entry:
\* it has pushed nothing, none of its steps up to and including its checks
\* changes a balance or the log, and none of its steps after the failure does.
Rejections ==
  {"InvalidAmount", "AccountNotFound", "InsufficientFunds", "SelfTransfer"}

RejectedClean ==
  \A p \in Procs :
    result[p] \in Rejections
    => /\ ~appended[p]
       /\ pre[p] = <<0, 0>>
       /\ pc[p] \in {"d_release", "w_release", "t_release2", "t_release1",
                     "done"}

RejectedStep ==
  \A p \in Procs :
    (/\ pc'[p] # pc[p]
     /\ \/ result'[p] \in Rejections
        \/ pc[p] \in {"d_acquire", "d_check", "w_acquire", "w_check",
                      "t_acquire1", "t_acquire2", "t_check"})
    => balance' = balance /\ log' = log

FailureChangesNothing == []RejectedClean /\ [][RejectedStep]_vars

\* A transfer to an unknown account has failed while its source holds money.
TransferToUnknownFailed ==
  \E p \in Procs :
    /\ pc[p] = "done" /\ call[p].op = "transfer"
    /\ result[p] = "AccountNotFound"
    /\ call[p].fromId \in accounts /\ call[p].toId \notin accounts
    /\ balance[call[p].fromId] >= call[p].amount


\* C13: a withdraw that got its lock succeeds exactly when the amount is
\* positive, the account exists and the balance covers the amount, and fails
\* with InsufficientFunds when the balance is smaller; it then lowers that
\* balance by the amount and no other, appends its withdraw entry, and
\* succeeds.
WithdrawStep ==
  \A p \in Procs :
    (call[p].op = "withdraw" /\ pc'[p] # pc[p])
    => LET id == call[p].fromId
           amount == call[p].amount
           known == amountPositive(amount) /\ id \in accounts
       IN /\ pc[p] = "w_check"
               => /\ pc'[p] = "w_subtract"
                       <=> (known /\ balance[id] >= amount)
                  /\ (known /\ balance[id] < amount)
                       => result'[p] = "InsufficientFunds"
          /\ pc[p] = "w_subtract"
               => balance' = [balance EXCEPT ![id] = @ - amount]
          /\ pc[p] = "w_push"
               => log' = Append(log, withdrawLog(id, amount))
          /\ pc[p] = "w_logger" => result'[p] = "ok"

WithdrawContract == [][WithdrawStep]_vars

\* C14: a deposit of a positive amount on an existing account that got its
\* lock raises that balance by the amount and no other, appends its deposit
\* entry, and returns it.
DepositStep ==
  \A p \in Procs :
    (call[p].op = "deposit" /\ pc'[p] # pc[p])
    => LET id == call[p].toId
           amount == call[p].amount
       IN /\ pc[p] = "d_check"
               => (pc'[p] = "d_add"
                     <=> (amountPositive(amount) /\ id \in accounts))
          /\ pc[p] = "d_add"
               => balance' = [balance EXCEPT ![id] = @ + amount]
          /\ pc[p] = "d_push"
               => log' = Append(log, depositLog(id, amount))
          /\ pc[p] = "d_logger" => result'[p] = "ok"

DepositContract == [][DepositStep]_vars


\* C15: a transfer appends one entry, of kind transfer, naming both accounts:
\* its push step puts that one entry at the end of getAllTransactions, of
\* getTransactionLogs of the source and of getTransactionLogs of the
\* destination, its other steps leave the log alone, and a transfer that has
\* succeeded has made its push.
TransferPushStep ==
  \A p \in Procs :
    (call[p].op = "transfer" /\ pc'[p] # pc[p])
    => IF pc[p] = "t_push"
         THEN LET k == Len(getAllTransactions')
                  e == getAllTransactions'[k]
              IN /\ k = Len(getAllTransactions) + 1
                 /\ SubSeq(getAllTransactions', 1, k - 1) = getAllTransactions
                 /\ e.type = "transfer"
                 /\ e.fromAccountId = call[p].fromId
                 /\ e.toAccountId = call[p].toId
                 /\ e.amount = call[p].amount
                 /\ \A id \in {call[p].fromId, call[p].toId} :
                      /\ getTransactionLogs(id)'.error = "none"
                      /\ getTransactionLogs(id)'.entries =
                           Append(getTransactionLogs(id).entries, e)
                 /\ \A id \in accounts \ {call[p].fromId, call[p].toId} :
                      getTransactionLogs(id)' = getTransactionLogs(id)
         ELSE getAllTransactions' = getAllTransactions

TransferPushed ==
  \A p \in Procs :
    (call[p].op = "transfer" /\ result[p] = "ok") => appended[p]

OneEntryPerTransfer == []TransferPushed /\ [][TransferPushStep]_vars

\* Two transfers in opposite directions have succeeded; each account's
\* history shows both entries.
TwoTransfersLogged ==
  /\ \A p \in Procs :
       pc[p] = "done" /\ call[p].op = "transfer" /\ result[p] = "ok"
  /\ Len(getAllTransactions) = 2
  /\ getAllTransactions[1] # getAllTransactions[2]
  /\ \A id \in Ids : Len(getTransactionLogs(id).entries) = 2

\* C16: getTransactionLogs(id) fails with AccountNotFound for an unknown id;
\* for an existing one it returns the entries of the log whose source or
\* destination is id, each once and in the order of the log.
Touching(id) ==
  {k \in 1..Len(log) : log[k].fromAccountId = id \/ log[k].toAccountId = id}

\* the position in the log of the j-th entry that touches id
NthTouching(id, j) ==
  CHOOSE k \in Touching(id) :
    Cardinality({m \in Touching(id) : m <= k}) = j

HistoryIsFilteredLog ==
  \A id \in Ids :
    LET r == getTransactionLogs(id)
    IN IF id \in accounts
         THEN /\ r.error = "none"
              /\ Len(r.entries) = Cardinality(Touching(id))
              /\ \A j \in 1..Len(r.entries) :
                   r.entries[j] = log[NthTouching(id, j)]
         ELSE r.error = "AccountNotFound"

\* One account's history holds both entries of the log, in order, another
\* account's history holds only the second, and a third id is unknown or
\* untouched.
HistoriesDiffer ==
  \E a \in accounts, b \in accounts :
    /\ Len(log) = 2 /\ log[1] # log[2]
    /\ getTransactionLogs(a).entries = log
    /\ getTransactionLogs(b).entries = <<log[2]>>
    /\ getTransactionLogs(a).entries[1].type = "deposit"


\* C17: a call with a non-positive amount (a transfer to the same account set
\* aside) holds no lock at any point and fails with InvalidAmount, whatever
\* locks are held.
InvalidAmountBeforeLock ==
  \A p \in Procs :
    (/\ pc[p] # "idle"
     /\ ~amountPositive(call[p].amount)
     /\ ~(call[p].op = "transfer" /\ call[p].fromId = call[p].toId))
    => /\ holds(p) = {}
       /\ result[p] \in {"none", "InvalidAmount"}

\* C18: a transfer from an account to itself fails with SelfTransfer in its
\* first step, which leaves the locks, the balances and the log as they are,
\* whether or not the account exists and whoever holds its lock.
SelfTransferStep ==
  \A p \in Procs :
    (/\ call[p].op = "transfer" /\ call[p].fromId = call[p].toId
     /\ pc'[p] # pc[p])
    => /\ pc[p] \in {"t_acquire1", "done"}
       /\ pc[p] = "t_acquire1"
            => /\ pc'[p] = "done"
               /\ result'[p] = "SelfTransfer"
               /\ locks' = locks /\ balance' = balance /\ log' = log

SelfTransferDone ==
  \A p \in Procs :
    (/\ call[p].op = "transfer" /\ call[p].fromId = call[p].toId
     /\ pc[p] # "t_acquire1")
    => /\ pc[p] = "done" /\ result[p] = "SelfTransfer"
       /\ holds(p) = {} /\ ~appended[p]

SelfTransferRejected == []SelfTransferDone /\ [][SelfTransferStep]_vars

\* A transfer from an account to itself was rejected while another caller
\* held that account's lock, and the account does not exist.
SelfTransferOnLockedUnknown ==
  \E p \in Procs, q \in Procs :
    /\ p # q
    /\ pc[p] = "done" /\ call[p].op = "transfer"
    /\ call[p].fromId = call[p].toId /\ result[p] = "SelfTransfer"
    /\ call[p].fromId \in holds(q) /\ call[p].fromId \in locks
    /\ call[p].fromId \notin accounts


\* C19: the balance of an existing account changes only in a step of a
\* deposit, withdraw or transfer call that has acquired that account's lock
\* and not released it, the id being in the lock set.
BalanceWriteStep ==
  \A i \in accounts :
    balance'[i] # balance[i]
    => \E p \in Procs :
         /\ pc'[p] # pc[p]
         /\ call[p].op \in {"deposit", "withdraw", "transfer"}
         /\ i \in holds(p)
         /\ i \in locks /\ i \in locks'

BalanceWrittenUnderLock == [][BalanceWriteStep]_vars

\* A transfer has made its debit and not yet its credit, with both locks in
\* the lock set.
DebitMadeUnderLocks ==
  \E p \in Procs :
    /\ pc[p] = "t_credit"
    /\ balance[call[p].fromId] = pre[p][1] - call[p].amount
    /\ call[p].amount > 0
    /\ {call[p].fromId, call[p].toId} \subseteq locks

\* C20: calls on disjoint sets of accounts do not interfere: a call is
\* rejected as busy only when the lock it asks for, on one of its own
\* accounts, is in the lock set; a step of a call writes no lock and no
\* balance of an account outside its own set; and a call in flight can always
\* take its next step, so it never waits.
AccountsOf(p) == {call[p].fromId, call[p].toId} \ {None}

DisjointStep ==
  \A p \in Procs :
    pc'[p] # pc[p]
    => /\ (result'[p] = "Busy" /\ result[p] # "Busy")
            => /\ requested(p) # {}
               /\ requested(p) \subseteq locks \cap AccountsOf(p)
       /\ \A i \in Ids \ AccountsOf(p) :
            /\ i \in locks' <=> i \in locks
            /\ balance'[i] = balance[i]

NeverWaits == \A p \in Procs : InFlight(p) => ENABLED Step(p)

LoggerFailureHarmless ==
  \A p \in Procs :
    (/\ appended[p]
     /\ pc[p] \in {"d_release", "w_release", "t_release2", "t_release1",
                   "done"})
    => result[p] = "ok"


\* C25: every entry of the log has an amount greater than zero.
LoggedAmountsPositive == \A k \in 1..Len(log) : log[k].amount > 0

\* A call with amount 0 has been rejected while the log holds an entry.
ZeroAmountRejectedBesideEntry ==
  \E p \in Procs :
    /\ pc[p] = "done" /\ call[p].amount = 0
    /\ call[p].op \in {"deposit", "withdraw"}
    /\ result[p] = "InvalidAmount"
    /\ Len(log) >= 1

\* C26: every entry of the log is well-formed for its kind: a deposit names
\* a destination only, a withdraw a source only, a transfer names both and
\* they differ; and every id an entry names is the id of an existing account.
WellFormed(e) ==
  /\ e.type \in {"deposit", "withdraw", "transfer"}
  /\ e.type = "deposit"
       => e.fromAccountId = None /\ e.toAccountId \in accounts
  /\ e.type = "withdraw"
       => e.toAccountId = None /\ e.fromAccountId \in accounts
  /\ e.type = "transfer"
       => /\ e.fromAccountId \in accounts /\ e.toAccountId \in accounts
          /\ e.fromAccountId # e.toAccountId

LogWellFormed == None \notin accounts /\ \A k \in 1..Len(log) : WellFormed(log[k])

\* The log holds a transfer entry and an entry of another kind.
TransferAndOtherLogged ==
  /\ \E k \in 1..Len(log) : log[k].type = "transfer"
  /\ \E k \in 1..Len(log) : log[k].type = "withdraw"

\* C27: a transfer that has entered its critical section releases its locks
\* in the reverse of the order of acquisition: the step after the critical
\* section deletes the second (larger) id and leaves the first in the lock
\* set, the next step deletes the first (smaller) id, and no other step of
\* the transfer deletes a lock.
ReleaseOrderStep ==
  \A p \in Procs :
    (call[p].op = "transfer" /\ pc'[p] # pc[p])
    => LET first == Smaller(call[p].fromId, call[p].toId)
           second == Larger(call[p].fromId, call[p].toId)
       IN /\ pc[p] \in {"t_check", "t_logger"} /\ result'[p] # "none"
               => pc'[p] = "t_release2"
          /\ pc[p] = "t_release2"
               => /\ second \in locks /\ locks' = locks \ {second}
                  /\ first \in locks'
                  /\ pc'[p] = "t_release1"
          /\ pc[p] = "t_release1"
               => /\ first \in locks /\ locks' = locks \ {first}
                  /\ pc'[p] = "done"
          /\ pc[p] \notin {"t_release2", "t_release1"}
               => locks \subseteq locks'

ReverseReleaseOrder == [][ReleaseOrderStep]_vars

\* A transfer that failed in its critical section has released its second
\* lock and still holds its first.
FailedTransferHalfReleased ==
  \E p \in Procs :
    /\ pc[p] = "t_release1" /\ result[p] = "InsufficientFunds"
    /\ Smaller(call[p].fromId, call[p].toId) \in locks
    /\ Larger(call[p].fromId, call[p].toId) \notin locks


\* C22: the timestamps of the log never decrease in append order: of two
\* entries, the one appended later has a timestamp at least as large.
TimestampsMonotone ==
  \A i \in 1..Len(log), j \in 1..Len(log) :
    i < j => log[i].timestamp <= log[j].timestamp


\* C23: createAccount with a negative initial balance fails with
\* InvalidAmount and creates nothing; otherwise (0 included) it adds one
\* account under an id no account had, with the initial balance as its
\* balance, and leaves the existing accounts and the log as they were.  No
\* other call adds an account.
CreateStep ==
  (outcome' # outcome \/ accounts' # accounts)
  => IF outcome'.op # "createAccount"
       THEN accounts' = accounts
       ELSE /\ log' = log /\ locks' = locks
            /\ \A i \in accounts :
                 balance'[i] = balance[i] /\ names'[i] = names[i]
            /\ IF outcome'.arg < 0
                 THEN /\ outcome'.result = "InvalidAmount"
                      /\ accounts' = accounts
                 ELSE /\ outcome'.result = "ok"
                      /\ outcome'.id \notin accounts
                      /\ accounts' = accounts \cup {outcome'.id}
                      /\ balance'[outcome'.id] = outcome'.arg
                      /\ names'[outcome'.id] = outcome'.name

CreateAccountContract == [][CreateStep]_vars

\* An account was opened with balance 0 beside an existing account, the log
\* holding an entry.
EmptyAccountOpenedSecond ==
  /\ outcome.op = "createAccount" /\ outcome.result = "ok"
  /\ outcome.arg = 0 /\ balance[outcome.id] = 0
  /\ Cardinality(accounts) = 2
  /\ Len(log) = 1

\* C28: getAccount, accountExists, getAllAccounts, getTransactionLogs and
\* getAllTransactions change no balance, no log entry, no lock and no
\* account; getAccount of an unknown id returns undefined without an error
\* and accountExists of a name no account has returns false.
ReadOps ==
  {"getAccount", "accountExists", "getAllAccounts", "getTransactionLogs",
   "getAllTransactions"}

ReadStep ==
  (outcome'.op \in ReadOps /\ outcome' # outcome)
  => /\ balance' = balance /\ log' = log /\ locks' = locks
     /\ accounts' = accounts /\ names' = names
     /\ (outcome'.op = "getAccount" /\ outcome'.id \notin accounts)
          => outcome'.result = "ok" /\ outcome'.value = "undefined"
     /\ (outcome'.op = "accountExists"
           /\ \A i \in accounts : names[i] # outcome'.name)
          => outcome'.result = "ok" /\ outcome'.value = "false"

ReadsChangeNothing == [][ReadStep]_vars

\* getAccount of an unknown id has returned undefined, an account existing
\* and the log holding an entry.
UnknownAccountRead ==
  /\ outcome.op = "getAccount" /\ outcome.value = "undefined"
  /\ outcome.id \notin accounts
  /\ accounts # {} /\ Len(log) = 1


\* C24 as stated: no two accounts have the same name, and a POST /accounts
\* request whose name is that of an existing account is answered 409
\* 'Account already exists'.
UniqueNames ==
  \A i \in accounts, j \in accounts : names[i] = names[j] => i = j

DuplicateNameAnswered409 ==
  /\ UniqueNames
  /\ (/\ request.route = "POST /accounts"
      /\ response.status # 201
      /\ accountExists(request.name))
     => /\ response.status = 409
        /\ response.error = "AccountAlreadyExists"

\* C24: no two accounts have the same name; a POST /accounts request that
\* passes validation (a non-empty name, a balance of at least 0, no other
\* field) and whose name is that of an existing account is answered 409
\* 'Account already exists' and creates no account; one that does not pass
\* validation is answered 400 and creates no account; any other creates one.
ValidAccountRequest(r) ==
  validName(r.name) /\ validBalance(r.amount) /\ ~r.extra

DuplicateStep ==
  (/\ request'.route = "POST /accounts"
   /\ request' # request \/ response' # response \/ accounts' # accounts)
  => IF ~ValidAccountRequest(request')
       THEN /\ response'.status = 400 /\ ~response'.success
            /\ accounts' = accounts /\ names' = names
       ELSE IF \E i \in accounts : names[i] = request'.name
         THEN /\ response'.status = 409 /\ ~response'.success
              /\ response'.error = "AccountAlreadyExists"
              /\ accounts' = accounts /\ names' = names
         ELSE /\ response'.status = 201 /\ response'.success
              /\ Cardinality(accounts') = Cardinality(accounts) + 1

ValidDuplicateAnswered409 == []UniqueNames /\ [][DuplicateStep]_vars

\* A valid request to open a second account under the name of the first was
\* answered 409.
DuplicateRefused ==
  /\ request.route = "POST /accounts" /\ ValidAccountRequest(request)
  /\ response.status = 409
  /\ Cardinality(accounts) = 1
  /\ \E i \in accounts : names[i] = request.name

\* C29: the routes answer every AccountNotFound failure with 404, every
\* InvalidAmount, InsufficientFunds and SelfTransfer failure with 400, and
\* every other fault inside the program with 500.
ErrorClasses ==
  /\ (\/ outcome.result = "AccountNotFound"
      \/ outcome.op = "getAccount" /\ outcome.value = "undefined")
     => response.status = 404
  /\ outcome.result \in {"InvalidAmount", "InsufficientFunds", "SelfTransfer"}
     => response.status = 400
  /\ outcome.result \in {"LoggerError", "SimulatedError"}
     => response.status = 500

\* C30 as stated: a transfer request that names an id of no account is
\* answered 400, success false, 'Account not found'.
UnknownTransferAnswered ==
  (/\ request.route = "POST /accounts/transfer"
   /\ request.id \notin accounts \/ request.toId \notin accounts)
  => /\ response.status = 400 /\ ~response.success
     /\ response.error = "AccountNotFound"

\* C30: a transfer request that passes validation (a positive amount, no
\* other field) and names two different ids, one of them at least the id of
\* no account, is answered 400, success false, 'Account not found', and
\* changes no balance and no log entry.
UnknownTransferStep ==
  (/\ request'.route = "POST /accounts/transfer"
   /\ request' # request \/ response' # response
   /\ validAmount(request'.amount) /\ ~request'.extra
   /\ request'.id # request'.toId
   /\ request'.id \notin accounts \/ request'.toId \notin accounts)
  => /\ response'.status = 400 /\ ~response'.success
     /\ response'.error = "AccountNotFound"
     /\ balance' = balance /\ log' = log /\ accounts' = accounts

ValidUnknownTransferAnswered == [][UnknownTransferStep]_vars

\* A transfer of an amount its source holds, to an id of no account, was
\* answered 400 'Account not found'.
TransferToUnknownRefused ==
  /\ request.route = "POST /accounts/transfer"
  /\ request.id \in accounts /\ request.toId \notin accounts
  /\ request.amount > 0 /\ balance[request.id] >= request.amount
  /\ response.status = 400 /\ response.error = "AccountNotFound"

\* the amounts of the entries of l that credit account id minus the amounts
\* of those that debit it, applied in log order
RECURSIVE NetOf(_, _)
NetOf(l, id) ==
  IF l = <<>> THEN 0
  ELSE (IF Head(l).toAccountId = id THEN Head(l).amount ELSE 0)
       - (IF Head(l).fromAccountId = id THEN Head(l).amount ELSE 0)
       + NetOf(Tail(l), id)

\* No deposit, withdraw or transfer is in flight.
Quiescent == \A p \in Procs : ~InFlight(p)

\* C32: in every state where no operation is in flight, the balance of each
\* account is its initial balance plus the amounts of the log entries that
\* name it as toAccountId minus the amounts of those that name it as
\* fromAccountId.
PerAccountHistory ==
  Quiescent =>
    \A id \in accounts : balance[id] = initial[id] + NetOf(log, id)

\* Nothing is in flight and the log holds a credit of an account followed by
\* a debit of the same account.
CreditThenDebitSettled ==
  /\ Quiescent
  /\ Len(log) = 2
  /\ \E id \in accounts :
       log[1].toAccountId = id /\ log[2].fromAccountId = id

\* A step that takes an id out of the lock set is a step of a caller that
\* holds the lock of that id.
ReleaseStep ==
  \A id \in locks \ locks' :
    \E p \in Procs : pc'[p] # pc[p] /\ id \in holds(p)

\* C34: a lock leaves the lock set only by a step of the call that acquired
\* it; a call that fails in acquireLock because the lock is held leaves the
\* holder's entry in the lock set.
OnlyHolderReleases == [][ReleaseStep]_vars

\* A deposit has failed with 'Account is busy, try again' and the call that
\* holds the lock of its account is still in flight, its lock in the lock set.
BusyDepositLeftHolder ==
  \E p \in Procs, q \in Procs :
    /\ p # q
    /\ call[p].op = "deposit"
    /\ pc[p] = "done" /\ result[p] = "Busy"
    /\ call[p].toId \in holds(q)
    /\ call[p].toId \in locks

PrecedenceStep ==
  \A p \in Procs :
    pc'[p] # pc[p]
    => LET c == call[p]
           first == sortIds(c.fromId, c.toId)[1]
           second == sortIds(c.fromId, c.toId)[2]
       IN /\ pc[p] = "d_acquire"
               => result'[p] = IF c.toId \in locks THEN "Busy" ELSE "none"
          /\ pc[p] = "d_check"
               => result'[p] = IF c.amount <= 0 THEN "InvalidAmount"
                               ELSE IF c.toId \notin accounts
                                 THEN "AccountNotFound"
                                 ELSE "none"
          /\ pc[p] = "w_acquire"
               => result'[p] = IF c.fromId \in locks THEN "Busy" ELSE "none"
          /\ pc[p] = "w_check"
               => result'[p] = IF c.amount <= 0 THEN "InvalidAmount"
                               ELSE IF c.fromId \notin accounts
                                 THEN "AccountNotFound"
                                 ELSE IF balance[c.fromId] < c.amount
                                   THEN "InsufficientFunds"
                                   ELSE "none"
          /\ pc[p] = "t_acquire1"
               => result'[p] = IF c.fromId = c.toId THEN "SelfTransfer"
                               ELSE IF c.amount <= 0 THEN "InvalidAmount"
                               ELSE IF first \in locks THEN "Busy"
                               ELSE "none"
          /\ pc[p] = "t_acquire2"
               => result'[p] = IF second \in locks THEN "Busy" ELSE "none"
          /\ pc[p] = "t_check"
               => result'[p] = IF c.fromId \notin accounts
                                  \/ c.toId \notin accounts
                                 THEN "AccountNotFound"
                                 ELSE IF balance[c.fromId] < c.amount
                                   THEN "InsufficientFunds"
                                   ELSE "none"

\* A call that no failure applies to succeeds: once its checks are passed,
\* its last statement before the finally block returns the entry.
SuccessStep ==
  \A p \in Procs :
    (pc'[p] # pc[p] /\ pc[p] \in {"d_logger", "w_logger", "t_logger"})
    => result'[p] = "ok"

\* C36: the outcome of a call is a function of its arguments and of the state
\* its statements find, with a fixed precedence among the failures, and the
\* call succeeds exactly when no failure applies.
FixedPrecedence == [][PrecedenceStep /\ SuccessStep]_vars

\* C35: when each call of the service runs to its end before the next one
\* begins, no call returns 'Account is busy, try again' and the lock set is
\* empty between any two calls, after a call that failed too.
RunToCompletionNeverBusy == locks = {} /\ outcome.result # "Busy"

\* A transfer between two accounts took both locks, failed for want of funds
\* and has left the lock set empty.
FailedTransferLeftNoLock ==
  /\ outcome.op = "transfer"
  /\ outcome.result = "InsufficientFunds"
  /\ locks = {}

\* A step removes no account and changes the name of no account.
AccountsKeptStep ==
  /\ accounts \subseteq accounts'
  /\ \A id \in accounts : names'[id] = names[id]

\* C38: the set of accounts only grows and an existing account keeps its id
\* and its name: an id that resolves to an account resolves to the same
\* account in every later state.
AccountsStable == [][AccountsKeptStep]_vars

\* Two accounts of different names exist and a transfer between them has
\* been made.
TwoAccountsAfterTransfer ==
  /\ accounts = Ids
  /\ \A i \in Ids, j \in Ids : i # j => names[i] # names[j]
  /\ outcome.op = "transfer" /\ outcome.result = "ok"

UnauthorizedStep ==
  request'.auth \in {"noHeader", "notBearer", "badToken"}
    => /\ response'.status = IF request'.early = "badBody" THEN 500
                             ELSE IF request'.early = "limited" THEN 429
                             ELSE 401
       /\ ~response'.success
       /\ outcome' = NoOutcome
       /\ accounts' = accounts /\ names' = names
       /\ balance' = balance /\ log' = log

Plain(e) == v1Log(e.type, e.fromAccountId, e.toAccountId, e.amount)

PlainSeq(s) == [i \in 1..Len(s) |-> Plain(s[i])]

\* Both services hold the same accounts with the same balances and give the
\* same getTransactionLogs(id) for every id.
SameLedger ==
  /\ v1.accounts = accounts
  /\ \A id \in accounts : v1.balance[id] = balance[id]
  /\ \A id \in Ids :
       /\ v1GetTransactionLogs(v1, id).error = getTransactionLogs(id).error
       /\ v1GetTransactionLogs(v1, id).entries
            = PlainSeq(getTransactionLogs(id).entries)

\* C37: after every sequence of createAccount, deposit, withdraw and
\* transfer calls made on both services, the last call has succeeded on both
\* or failed on both, the balances are the same and getTransactionLogs(id)
\* gives the same sequence of entries, by kind, accounts and amount, for
\* every account.
ImplementationsAgree ==
  /\ (v1.result = "ok") <=> (outcome.result = "ok")
  /\ SameLedger

====
